---- MODULE Spec2Model ----
(***************************************************************************)
(* taskflows/service/service.py: the Service object, the unit files it     *)
(* synthesizes into the systemd user directory, and the lifecycle          *)
(* operations it drives over the systemd manager's D-Bus interface.        *)
(*                                                                         *)
(* The store (the unit-file directory) and the manager's enablement table  *)
(* are the environment; every operation is one action that runs the whole  *)
(* handler and records the sequence of effects it issued in last.trace.    *)
(***************************************************************************)
EXTENDS Integers, Sequences, FiniteSets, TLC

VARIABLES spec, store, enabled, last, mgr, ret, db

\* spec, store, enabled, last: a Service object, the unit-file directory, the
\* manager's enablement table, and the last lifecycle operation.
\* mgr: what the manager and the host report to the module-level queries.
\* ret: the last module-level query, its arguments and what it returned.
\* db: the rows of the tables of TaskflowsDB.
vars == <<spec, store, enabled, last, mgr, ret, db>>

(***************************************************************************)
(* Bounds.                                                                 *)
(***************************************************************************)
\* the number of D-Bus calls of one operation that may raise DBusException
MaxFaults == 1

(***************************************************************************)
(* Values.                                                                 *)
(***************************************************************************)
\* taskflows.utils._SYSTEMD_FILE_PREFIX, as one token of the file stem
SYSTEMD_FILE_PREFIX == <<"taskflow-">>

\* taskflows.utils.systemd_dir
systemd_dir == "systemd_dir"

\* a name inside a command or a call: a unit (stop-?<stem>.<type>), a
\* container, or nothing
NoTarget == [stop |-> FALSE, stem |-> <<>>, type |-> "none"]

Container(c) == [stop |-> FALSE, stem |-> c, type |-> "container"]

\* a command string: the program words, then the name it acts on
Cmd(prog, arg) == [prog |-> prog, arg |-> arg]

\* Optional[str] = None
NoCmd == Cmd("None", NoTarget)

\* Optional[...Schedule...] = None, a list of schedules, or one schedule
\* (a list of one); a schedule is given by its unit_entries
SchedNone == [isNone |-> TRUE, list |-> <<>>]

SchedList(l) == [isNone |-> FALSE, list |-> l]

\* Python truthiness of a schedule slot: None and [] are false
Truthy(sched) == ~sched.isNone /\ Len(sched.list) > 0

\* Python truthiness of an Optional[str]
CmdSet(cmd) == cmd.prog # "None"

(***************************************************************************)
(* File names.                                                             *)
(***************************************************************************)
base_file_stem(s) ==
  SYSTEMD_FILE_PREFIX \o
    [i \in 1..Len(s.name) |-> IF s.name[i] = " " THEN "_" ELSE s.name[i]]

\* f"{'stop-' if stop}{stem}.{type}"
UnitName(stop, stem, type) == [stop |-> stop, stem |-> stem, type |-> type]

\* os.path.join(systemd_dir, f)
PathJoin(dir, f) == [dir |-> dir, base |-> f]

\* os.path.basename(sf), Path(f).name
basename(p) == p.base

timer_files(s) ==
  LET file_stem == base_file_stem(s)
      files == (IF Truthy(s.start_schedule)
                  THEN <<UnitName(FALSE, file_stem, "timer")>> ELSE <<>>)
            \o (IF Truthy(s.stop_schedule)
                  THEN <<UnitName(TRUE, file_stem, "timer")>> ELSE <<>>)
  IN  [i \in DOMAIN files |-> PathJoin(systemd_dir, files[i])]

service_files(s) ==
  LET file_stem == base_file_stem(s)
      files == <<UnitName(FALSE, file_stem, "service")>>
            \o (IF Truthy(s.stop_schedule)
                  THEN <<UnitName(TRUE, file_stem, "service")>> ELSE <<>>)
  IN  [i \in DOMAIN files |-> PathJoin(systemd_dir, files[i])]

unit_files(s) == service_files(s) \o timer_files(s)

\* re.match(r"^stop-.*\.service$", sf)
IsStopService(sf) == sf.stop /\ sf.type = "service"

Range(seq) == {seq[i] : i \in DOMAIN seq}

(***************************************************************************)
(* Unit-file text: the list of lines that "\n".join(content) writes.       *)
(***************************************************************************)
Line(key, val) == [key |-> key, val |-> val]

Txt(t) == Cmd(t, NoTarget)

Header(h) == Line(h, Txt(""))

\* the iteration order of a Python set of directive strings: ord lists the
\* directive keys in the order the interpreter's hashing yields them
SetOrder(S, ord) ==
  LET present == SelectSeq(ord, LAMBDA k : \E l \in S : l.key = k)
  IN  [i \in DOMAIN present |-> CHOOSE l \in S : l.key = present[i]]

\* re.search(r"docker (?:start|stop) ([\w-]+)", text): the first match in the
\* text, or none
IsDockerRef(l) ==
  l.val.prog \in {"docker start", "docker stop"} /\ l.val.arg.type = "container"

\* re.findall in place of re.search: every match in the text
container_name_all(text) ==
  LET hits == SelectSeq(text, IsDockerRef)
  IN  {hits[i].val.arg : i \in DOMAIN hits}

container_name(text) ==
  LET hits == SelectSeq(text, IsDockerRef)
  IN  IF hits = <<>> THEN {} ELSE {Head(hits).val.arg}

(***************************************************************************)
(* The machine an operation runs on: the store, the manager's enablement   *)
(* table, the effects issued so far, and the exception raised, if any.     *)
(***************************************************************************)
Ev(ev, arg, ok, mode) == [ev |-> ev, arg |-> arg, ok |-> ok, mode |-> mode]

Machine(st, en) == [store |-> st, enabled |-> en, trace |-> <<>>, err |-> "none"]

Emit(m, e) == [m EXCEPT !.trace = Append(@, e)]

Raise(m, exc) == [m EXCEPT !.err = exc]

Ok(m) == m.err = "none"

\* a D-Bus call the fault plan F makes raise dbus.exceptions.DBusException
Fault(ev, target) == [ev |-> ev, target |-> target]

Exists(st, p) == p \in DOMAIN st

WriteText(st, p, content) ==
  [q \in DOMAIN st \cup {p} |-> IF q = p THEN content ELSE st[q]]

Unlink(st, p) == [q \in DOMAIN st \ {p} |-> st[q]]

(***************************************************************************)
(* Synthesis.                                                              *)
(***************************************************************************)
SystemdFilePath(s, unit_type, is_stop_unit) ==
  PathJoin(systemd_dir, UnitName(is_stop_unit, base_file_stem(s), unit_type))

write_systemd_file(m, s, unit_type, content, is_stop_unit) ==
  LET file == SystemdFilePath(s, unit_type, is_stop_unit)
  IN  [Emit(m, Ev("write_text", <<file>>, TRUE, unit_type))
         EXCEPT !.store = WriteText(m.store, file, content)]

write_service_file(m, s, unit, service, is_stop_unit) ==
  LET content == (IF unit # <<>> THEN <<Header("[Unit]")>> \o unit ELSE <<>>)
              \o <<Header("[Service]")>> \o service
              \o <<Header("[Install]"), Line("WantedBy", Txt("default.target"))>>
  IN  write_systemd_file(m, s, "service", content, is_stop_unit)

\* the timer directives of a schedule slot: the union of its schedules'
\* unit_entries
TimerEntries(sched) == UNION Range(sched.list)

TimerContent(s, is_stop_timer, sched, ord) ==
  <<Header("[Unit]"),
    Line("Description",
         Cmd(IF is_stop_timer THEN "stop timer for" ELSE "timer for",
             [stop |-> FALSE, stem |-> s.name, type |-> "none"])),
    Header("[Timer]")>>
  \o SetOrder(TimerEntries(sched), ord)
  \o <<Header("[Install]"), Line("WantedBy", Txt("timers.target"))>>

\* write_one_timer without the test for None
write_one_timer_always(m, s, is_stop_timer, sched, ord) ==
  write_systemd_file(m, s, "timer", TimerContent(s, is_stop_timer, sched, ord),
                     is_stop_timer)

write_one_timer(m, s, is_stop_timer, sched, ord) ==
  IF sched.isNone THEN m
  ELSE write_systemd_file(m, s, "timer",
                          TimerContent(s, is_stop_timer, sched, ord),
                          is_stop_timer)

write_timer_units(m, s, ord) ==
  write_one_timer(write_one_timer(m, s, FALSE, s.start_schedule, ord),
                  s, TRUE, s.stop_schedule, ord)

UnitEntries(s) ==
  IF CmdSet(s.description) THEN {Line("Description", s.description)} ELSE {}

ServiceEntries(s) ==
  {Line("ExecStart", s.start_command), Line("KillSignal", Txt(s.kill_signal))}
  \cup (IF CmdSet(s.stop_command) THEN {Line("ExecStop", s.stop_command)} ELSE {})

StopUnitService(s) ==
  <<Line("ExecStart",
         Cmd("systemctl --user stop",
             basename(SystemdFilePath(s, "service", FALSE))))>>

\* write_service_units that gives the stop service the [Unit] section too
write_service_units_stop_unit(m, s, ord) ==
  LET m1 == write_service_file(m, s, SetOrder(UnitEntries(s), ord),
                               SetOrder(ServiceEntries(s), ord), FALSE)
  IN  IF Truthy(s.stop_schedule)
        THEN write_service_file(m1, s, SetOrder(UnitEntries(s), ord),
                                StopUnitService(s), TRUE)
        ELSE m1

write_service_units(m, s, ord) ==
  LET m1 == write_service_file(m, s, SetOrder(UnitEntries(s), ord),
                               SetOrder(ServiceEntries(s), ord), FALSE)
  IN  IF Truthy(s.stop_schedule)
        THEN write_service_file(m1, s, <<>>, StopUnitService(s), TRUE)
        ELSE m1

(***************************************************************************)
(* The manager (org.freedesktop.systemd1.Manager) as the handlers use it.  *)
(* A call named by the fault plan F raises DBusException and changes       *)
(* nothing.                                                                *)
(***************************************************************************)
Enabled(u, runtime) == [unit |-> u, runtime |-> runtime]

\* mgr.EnableUnitFiles(files, runtime, force): the manager refuses a unit
\* file that is not in the store
EnableUnitFiles(m, files, runtime, force, F) ==
  LET ok == /\ Fault("EnableUnitFiles", NoTarget) \notin F
            /\ \A i \in DOMAIN files : Exists(m.store, files[i])
      m1 == Emit(m, Ev("EnableUnitFiles", files, ok,
                       IF runtime THEN "runtime" ELSE "persistent"))
  IN  IF ok
        THEN [m1 EXCEPT !.enabled =
                @ \cup {Enabled(basename(files[i]), runtime) : i \in DOMAIN files}]
        ELSE Raise(m1, "DBusException")

\* mgr.DisableUnitFiles(files, runtime)
DisableUnitFiles(m, names, runtime, F) ==
  LET ok == Fault("DisableUnitFiles", NoTarget) \notin F
      m1 == Emit(m, Ev("DisableUnitFiles", names, ok,
                       IF runtime THEN "runtime" ELSE "persistent"))
  IN  IF ok
        THEN [m1 EXCEPT !.enabled =
                @ \ {Enabled(names[i], runtime) : i \in DOMAIN names}]
        ELSE Raise(m1, "DBusException")

(***************************************************************************)
(* The module-level handlers.                                              *)
(***************************************************************************)
reload_unit_files(m, F) ==
  LET ok == Fault("Reload", NoTarget) \notin F
      m1 == Emit(m, Ev("Reload", <<>>, ok, ""))
  IN  IF ok THEN m1 ELSE Raise(m1, "DBusException")

\* start_service without the test for a stop service
RECURSIVE start_service_noskip(_, _, _)
start_service_noskip(m, files, F) ==
  IF files = <<>> THEN m
  ELSE LET sf == basename(Head(files))
           ok == Fault("StartUnit", sf) \notin F
           m1 == Emit(m, Ev("StartUnit", <<sf>>, ok, "replace"))
       IN  IF ok THEN start_service_noskip(m1, Tail(files), F)
           ELSE Raise(m1, "DBusException")

RECURSIVE start_service(_, _, _)
start_service(m, files, F) ==
  IF files = <<>> THEN m
  ELSE LET sf == basename(Head(files))
           ok == Fault("StartUnit", sf) \notin F
           m1 == Emit(m, Ev("StartUnit", <<sf>>, ok, "replace"))
       IN  IF IsStopService(sf) THEN start_service(m, Tail(files), F)
           ELSE IF ok THEN start_service(m1, Tail(files), F)
           ELSE Raise(m1, "DBusException")

\* stop_service without the try around StopUnit
RECURSIVE stop_service_abort(_, _, _)
stop_service_abort(m, files, F) ==
  IF files = <<>> THEN m
  ELSE LET sf == basename(Head(files))
           ok == Fault("StopUnit", sf) \notin F
           m1 == Emit(m, Ev("StopUnit", <<sf>>, ok, "replace"))
       IN  IF ok THEN stop_service_abort(m1, Tail(files), F)
           ELSE Raise(m1, "DBusException")

RECURSIVE stop_service(_, _, _)
stop_service(m, files, F) ==
  IF files = <<>> THEN m
  ELSE LET sf == basename(Head(files))
           ok == Fault("StopUnit", sf) \notin F
       IN  \* except DBusException: logged, the loop goes on
           stop_service(Emit(m, Ev("StopUnit", <<sf>>, ok, "replace")),
                        Tail(files), F)

RECURSIVE restart_service(_, _, _)
restart_service(m, files, F) ==
  IF files = <<>> THEN m
  ELSE LET sf == basename(Head(files))
           ok == Fault("RestartUnit", sf) \notin F
           m1 == Emit(m, Ev("RestartUnit", <<sf>>, ok, "replace"))
       IN  IF ok THEN restart_service(m1, Tail(files), F)
           ELSE Raise(m1, "DBusException")

enable_service(m, files, F) == EnableUnitFiles(m, files, FALSE, TRUE, F)

disable_service(m, files, F) ==
  DisableUnitFiles(m, [i \in DOMAIN files |-> basename(files[i])], FALSE, F)

\* the loop over service_files of _remove_service: clean (a failure is
\* logged), then read the file's text and keep the container it names
RECURSIVE clean_and_scan(_, _, _, _)
clean_and_scan(m, srv_files, container_names, F) ==
  IF srv_files = <<>> THEN [m |-> m, container_names |-> container_names]
  ELSE LET srv_file == Head(srv_files)
           ok == Fault("CleanUnit", basename(srv_file)) \notin F
           m1 == Emit(m, Ev("CleanUnit", <<basename(srv_file)>>, ok, "all"))
           there == Exists(m1.store, srv_file)
           m2 == Emit(m1, Ev("read_text", <<srv_file>>, there, ""))
       IN  IF ~there
             THEN [m |-> Raise(m2, "FileNotFoundError"),
                   container_names |-> container_names]
             ELSE clean_and_scan(m2, Tail(srv_files),
                    container_names \cup container_name(m2.store[srv_file]), F)

\* for cname in container_names: delete_docker_container(cname)
RECURSIVE delete_containers(_, _)
delete_containers(m, container_names) ==
  IF container_names = {} THEN m
  ELSE LET cname == CHOOSE c \in container_names : TRUE
       IN  delete_containers(
             Emit(m, Ev("delete_docker_container", <<cname>>, TRUE, "")),
             container_names \ {cname})

\* for file in files: file.unlink()
RECURSIVE unlink_files(_, _)
unlink_files(m, files) ==
  IF files = <<>> THEN m
  ELSE LET file == Head(files)
           there == Exists(m.store, file)
           m1 == Emit(m, Ev("unlink", <<file>>, there, ""))
       IN  IF there
             THEN unlink_files([m1 EXCEPT !.store = Unlink(m.store, file)],
                               Tail(files))
             ELSE Raise(m1, "FileNotFoundError")

\* remove_service that disables the units before it stops them
remove_service_disable_first(m, srv_files, tmr_files, F) ==
  LET files == srv_files \o tmr_files
      m1 == disable_service(m, files, F)
      m2 == stop_service(m1, files, F)
      r  == clean_and_scan(m2, srv_files, {}, F)
      m3 == delete_containers(r.m, r.container_names)
  IN  IF ~Ok(m1) THEN m1
      ELSE IF ~Ok(r.m) THEN r.m
      ELSE unlink_files(m3, files)

remove_service(m, srv_files, tmr_files, F) ==
  LET files == srv_files \o tmr_files
      m1 == stop_service(m, files, F)
      m2 == disable_service(m1, files, F)
      r  == clean_and_scan(m2, srv_files, {}, F)
      m3 == delete_containers(r.m, r.container_names)
  IN  IF ~Ok(m2) THEN m2
      ELSE IF ~Ok(r.m) THEN r.m
      ELSE unlink_files(m3, files)

(***************************************************************************)
(* The methods of Service.                                                 *)
(***************************************************************************)
remove(m, s, F) == remove_service(m, service_files(s), timer_files(s), F)

\* create that enables the unit files before it writes them
create_enable_first(m, s, defer_reload, F, ord) ==
  LET m1 == remove(m, s, F)
      m2 == enable_service(m1, unit_files(s), F)
      m3 == write_service_units(write_timer_units(m2, s, ord), s, ord)
  IN  IF ~Ok(m1) THEN m1
      ELSE IF ~Ok(m2) THEN m2
      ELSE IF ~defer_reload THEN reload_unit_files(m3, F) ELSE m3

create(m, s, defer_reload, F, ord) ==
  LET m1 == remove(m, s, F)
      m2 == write_timer_units(m1, s, ord)
      m3 == write_service_units(m2, s, ord)
      m4 == IF ~defer_reload THEN reload_unit_files(m3, F) ELSE m3
  IN  IF ~Ok(m1) THEN m1
      ELSE IF ~Ok(m4) THEN m4
      ELSE enable_service(m4, unit_files(s), F)

start(m, s, F) == start_service(m, unit_files(s), F)

stop(m, s, F) == stop_service(m, unit_files(s), F)

restart(m, s, F) == restart_service(m, service_files(s), F)

enable(m, s, F) == enable_service(m, unit_files(s), F)

disable(m, s, F) == disable_service(m, unit_files(s), F)

(***************************************************************************)
(* Inputs.                                                                 *)
(***************************************************************************)
Names == {<<"j", " ", "b">>}

\* a Calendar schedule, by its unit_entries
Calendar == {Line("OnCalendar", Txt("daily"))}

ScheduleSlots == {SchedNone, SchedList(<<>>), SchedList(<<Calendar>>)}

StartCommands == {Cmd("run", NoTarget), Cmd("docker start", Container(<<"c1">>))}

StopCommands ==
  {NoCmd, Cmd("docker stop", Container(<<"c1">>)),
   Cmd("docker stop", Container(<<"c2">>))}

Descriptions == {NoCmd, Txt("a job")}

Service(start_command, stop_command, start_schedule, stop_schedule, description) ==
  [name : Names, start_command : start_command, stop_command : stop_command,
   start_schedule : start_schedule, stop_schedule : stop_schedule,
   description : description, kill_signal : {"SIGTERM"}]

AllSpecs ==
  Service(StartCommands, StopCommands, ScheduleSlots, ScheduleSlots, Descriptions)

\* plain commands, every combination of a start and a stop schedule
ShapeSpecs ==
  Service({Cmd("run", NoTarget)}, {NoCmd}, {SchedNone, SchedList(<<Calendar>>)},
          {SchedNone, SchedList(<<Calendar>>)}, {Txt("a job")})

\* container-backed commands: one container named twice, two containers
\* named in one service (with a stop service beside it), and a plain service
DockerSpecs ==
  Service({Cmd("docker start", Container(<<"c1">>))},
          {Cmd("docker stop", Container(<<"c1">>))},
          {SchedNone}, {SchedNone}, {NoCmd})
  \cup Service({Cmd("docker start", Container(<<"c1">>))},
               {Cmd("docker stop", Container(<<"c2">>))},
               {SchedNone}, {SchedList(<<Calendar>>)}, {NoCmd})
  \cup Service({Cmd("run", NoTarget)}, {NoCmd}, {SchedNone}, {SchedNone}, {NoCmd})

\* every sequence that lists the members of S once
RECURSIVE Perms(_)
Perms(S) ==
  IF S = {} THEN {<<>>}
  ELSE UNION {{<<x>> \o p : p \in Perms(S \ {x})} : x \in S}

\* the orders in which the directive sets of s can come out
Orders(s) ==
  {o \o <<"Description", "OnCalendar">> :
     o \in Perms({l.key : l \in ServiceEntries(s)})}

UnitPoints(ev, files) == {Fault(ev, basename(files[i])) : i \in DOMAIN files}

FaultPlans(points) == {F \in SUBSET points : Cardinality(F) <= MaxFaults}

RemovePoints(s) ==
  UnitPoints("StopUnit", unit_files(s))
  \cup {Fault("DisableUnitFiles", NoTarget)}
  \cup UnitPoints("CleanUnit", service_files(s))

CreatePoints(s, defer_reload) ==
  RemovePoints(s)
  \cup (IF defer_reload THEN {} ELSE {Fault("Reload", NoTarget)})
  \cup {Fault("EnableUnitFiles", NoTarget)}

\* what an earlier deployment of s left in the store
Deployed(s, ord) ==
  write_service_units(write_timer_units(Machine(<<>>, {}), s, ord), s, ord).store

(***************************************************************************)
(* The state machine.                                                      *)
(***************************************************************************)
NoOp == [op |-> "none", defer |-> FALSE, trace |-> <<>>, err |-> "none"]

\* no query was made
NoRet == [fn |-> "none"]

\* the lifecycle operations read nothing of what the queries are told
NoReport == [utcoffset |-> 0]

\* table.create(conn, checkfirst=True) on a new database: no rows
NoRows == [table \in {"task_runs", "task_errors"} |-> {}]

\* the store is whatever an earlier deployment left (nothing, or a whole
\* unit set), enabled or not; the Service object is constructed
InitOver(SS) ==
  /\ spec \in SS
  /\ \/ store = <<>> /\ enabled = {}
     \/ \E s0 \in SS : \E ord \in Orders(s0) :
          /\ store = Deployed(s0, ord)
          /\ enabled \in {{}, {Enabled(basename(p), FALSE) :
                                 p \in DOMAIN Deployed(s0, ord)}}
  /\ last = NoOp
  /\ mgr = NoReport
  /\ ret = NoRet
  /\ db = NoRows

Done(op, defer, r) ==
  /\ store' = r.store
  /\ enabled' = r.enabled
  /\ last' = [op |-> op, defer |-> defer, trace |-> r.trace, err |-> r.err]
  /\ UNCHANGED <<spec, mgr, ret, db>>

\* the caller builds another Service object for the name
Construct(s) ==
  /\ s # spec
  /\ spec' = s
  /\ last' = NoOp
  /\ UNCHANGED <<store, enabled, mgr, ret, db>>

Create(defer_reload, F, ord) ==
  Done("create", defer_reload,
       create(Machine(store, enabled), spec, defer_reload, F, ord))

Remove(F) == Done("remove", FALSE, remove(Machine(store, enabled), spec, F))

Start(F) == Done("start", FALSE, start(Machine(store, enabled), spec, F))

Stop(F) == Done("stop", FALSE, stop(Machine(store, enabled), spec, F))

Restart(F) == Done("restart", FALSE, restart(Machine(store, enabled), spec, F))

Enable(F) == Done("enable", FALSE, enable(Machine(store, enabled), spec, F))

Disable(F) == Done("disable", FALSE, disable(Machine(store, enabled), spec, F))

CreateOp ==
  \E d \in BOOLEAN, ord \in Orders(spec) : \E F \in FaultPlans(CreatePoints(spec, d)) :
    Create(d, F, ord)

RemoveOp == \E F \in FaultPlans(RemovePoints(spec)) : Remove(F)

StartOp ==
  \E F \in FaultPlans(UnitPoints("StartUnit", unit_files(spec))) : Start(F)

StopOp ==
  \E F \in FaultPlans(UnitPoints("StopUnit", unit_files(spec))) : Stop(F)

RestartOp ==
  \E F \in FaultPlans(UnitPoints("RestartUnit", service_files(spec))) : Restart(F)

EnableOp == \E F \in FaultPlans({Fault("EnableUnitFiles", NoTarget)}) : Enable(F)

DisableOp == \E F \in FaultPlans({Fault("DisableUnitFiles", NoTarget)}) : Disable(F)

\* the lifecycle of one service name over its schedule shapes
Init == InitOver(ShapeSpecs)

Next ==
  \/ \E s \in ShapeSpecs : Construct(s)
  \/ CreateOp
  \/ RemoveOp
  \/ StartOp
  \/ StopOp
  \/ RestartOp
  \/ EnableOp
  \/ DisableOp

Spec == Init /\ [][Next]_vars

\* creating and removing one container-backed service
InitDocker == InitOver(DockerSpecs)

NextDocker ==
  \/ \E s \in DockerSpecs : Construct(s)
  \/ CreateOp
  \/ RemoveOp

SpecDocker == InitDocker /\ [][NextDocker]_vars

\* synthesis alone: _write_timer_units and _write_service_units of any spec,
\* into an empty store
InitSynth ==
  /\ spec \in AllSpecs
  /\ store = <<>>
  /\ enabled = {}
  /\ last = NoOp
  /\ mgr = NoReport
  /\ ret = NoRet
  /\ db = NoRows

Synthesize(ord) ==
  /\ last.op = "none"
  /\ Done("synthesize", FALSE,
          write_service_units(
            write_timer_units(Machine(store, enabled), spec, ord), spec, ord))

\* the unchanged spec is synthesized again, by whatever interpreter process
\* does so: the order of its sets is that process's (str hashes are seeded
\* per process)
Resynthesize(ord) ==
  /\ last.op \in {"synthesize", "resynthesize"}
  /\ Done("resynthesize", FALSE,
          write_service_units(
            write_timer_units(Machine(store, enabled), spec, ord), spec, ord))

NextSynth ==
  \/ \E ord \in Orders(spec) : Synthesize(ord)
  \/ \E ord \in Orders(spec) : Resynthesize(ord)

SpecSynth == InitSynth /\ [][NextSynth]_vars

\* Service(name="", ...): the dataclass takes any str for the name
UnnamedSpecs == {[s EXCEPT !.name = <<>>] : s \in ShapeSpecs}

InitUnnamed == InitOver(UnnamedSpecs)

NextUnnamed ==
  \/ \E s \in UnnamedSpecs : Construct(s)
  \/ CreateOp
  \/ RemoveOp

SpecUnnamed == InitUnnamed /\ [][NextUnnamed]_vars

(***************************************************************************)
(* get_schedule_info.  A timestamp is the manager's count of microseconds   *)
(* since 1970-01-01 00:00 UTC, kept here as the day and the hour of the day *)
(* it falls in; a datetime is naive, counted the same way.                  *)
(***************************************************************************)
\* datetime.min and datetime.max, in days from 1970-01-01
MinDay == -719162

MaxDay == 2932896

Timestamp(day, hour) == [day |-> day, hour |-> hour]

DateTime(day, hour) == [kind |-> "datetime", day |-> day, hour |-> hour]

None == [kind |-> "None", day |-> 0, hour |-> 0]

\* raise ValueError("year ... is out of range")
ValueError == [kind |-> "ValueError", day |-> 0, hour |-> 0]

\* datetime(1970, 1, 1, 0, 0, 0)
missing_dt == DateTime(0, 0)

\* datetime.fromtimestamp(timestamp / 1_000_000): the naive LOCAL time of the
\* instant, utcoffset being the host's offset from UTC in hours
fromtimestamp(timestamp, utcoffset) ==
  LET h  == timestamp.hour + utcoffset
      dt == IF h < 0 THEN DateTime(timestamp.day - 1, h + 24)
            ELSE IF h >= 24 THEN DateTime(timestamp.day + 1, h - 24)
            ELSE DateTime(timestamp.day, h)
  IN  IF dt.day < MinDay \/ dt.day > MaxDay THEN ValueError ELSE dt

timestamp_to_dt(timestamp, utcoffset) ==
  LET dt == fromtimestamp(timestamp, utcoffset)
  IN  IF dt = ValueError THEN None      \* except ValueError
      ELSE IF dt = missing_dt THEN None
      ELSE dt

\* dt1 <= dt2
DtLeq(a, b) == a.day < b.day \/ (a.day = b.day /\ a.hour <= b.hour)

\* min(next_start)
MinDt(dts) == CHOOSE d \in Range(dts) : \A e \in Range(dts) : DtLeq(d, e)

\* unit.replace(".service", "").replace(".timer", ""), then the prefix if the
\* stem does not start with it; a unit name is a sequence of tokens
UnitStem(unit) ==
  LET unit_stem == SelectSeq(unit, LAMBDA w : w \notin {".service", ".timer"})
  IN  IF unit_stem # <<>> /\ <<Head(unit_stem)>> = SYSTEMD_FILE_PREFIX
        THEN unit_stem
        ELSE SYSTEMD_FILE_PREFIX \o unit_stem

get_schedule_info(unit, m, dbus_ok) ==
  LET unit_stem == UnitStem(unit)
      tz == m.utcoffset
      loaded == <<unit_stem \o <<".service">>, unit_stem \o <<".timer">>>>
      timers_cal ==
        [i \in DOMAIN m.TimersCalendar |->
           [base |-> m.TimersCalendar[i].base, spec |-> m.TimersCalendar[i].spec,
            next_start |-> timestamp_to_dt(m.TimersCalendar[i].next_start, tz)]]
      timers_mono ==
        [i \in DOMAIN m.TimersMonotonic |->
           [base |-> m.TimersMonotonic[i].base,
            offset |-> m.TimersMonotonic[i].offset,
            next_start |-> timestamp_to_dt(m.TimersMonotonic[i].next_start, tz)]]
      next_elapse == timestamp_to_dt(m.NextElapseUSecRealtime, tz)
      next_start ==
        SelectSeq([i \in DOMAIN timers_cal |-> timers_cal[i].next_start],
                  LAMBDA d : d # None)
      schedule ==
        [k \in {"Last Start", "Last Finish", "Next Start"} |->
           CASE k = "Last Start" -> timestamp_to_dt(m.ActiveEnterTimestamp, tz)
             [] k = "Last Finish" -> timestamp_to_dt(m.ActiveExitTimestamp, tz)
             [] k = "Next Start" ->
                  IF next_elapse = None /\ next_start # <<>>
                    THEN MinDt(next_start) ELSE next_elapse]
  IN  IF dbus_ok
        THEN [fn |-> "get_schedule_info", args |-> <<unit>>, err |-> "none",
              loaded |-> loaded, schedule |-> schedule,
              timers_cal |-> timers_cal, timers_mono |-> timers_mono]
        ELSE [fn |-> "get_schedule_info", args |-> <<unit>>,
              err |-> "DBusException", loaded |-> <<Head(loaded)>>,
              schedule |-> <<>>, timers_cal |-> <<>>, timers_mono |-> <<>>]

\* never entered / never left the active state: 0
Epoch == Timestamp(0, 0)

\* no next elapse: UINT64_MAX microseconds
USEC_INFINITY == Timestamp(213503982, 8)

\* the sentinels, five hours past the epoch, and a day of 2022
Timestamps == {Epoch, Timestamp(0, 5), Timestamp(19000, 12), USEC_INFINITY}

\* the hosts' zones: five hours behind UTC, UTC, one hour ahead
UtcOffsets == {-5, 0, 1}

UpTo1(S) == {<<>>} \cup {<<x>> : x \in S}

Reports ==
  [utcoffset : UtcOffsets,
   ActiveEnterTimestamp : {Epoch, Timestamp(19000, 12)},
   ActiveExitTimestamp : Timestamps,
   NextElapseUSecRealtime : Timestamps,
   TimersCalendar :
     UpTo1([base : {"OnCalendar"}, spec : {"daily"}, next_start : Timestamps]),
   TimersMonotonic :
     UpTo1([base : {"OnBootUSec"}, offset : {1}, next_start : {USEC_INFINITY}])]

QueriedUnits ==
  {<<"j_b">>, SYSTEMD_FILE_PREFIX \o <<"j_b", ".service">>, <<"j_b", ".timer">>}

InitSchedule ==
  /\ spec \in {s \in ShapeSpecs : Truthy(s.start_schedule) /\ s.stop_schedule.isNone}
  /\ store = <<>>
  /\ enabled = {}
  /\ last = NoOp
  /\ mgr \in Reports
  /\ ret = NoRet
  /\ db = NoRows

GetScheduleInfo(unit, dbus_ok) ==
  /\ ret' = get_schedule_info(unit, mgr, dbus_ok)
  /\ UNCHANGED <<spec, store, enabled, last, mgr, db>>

NextSchedule ==
  \E unit \in QueriedUnits, dbus_ok \in BOOLEAN : GetScheduleInfo(unit, dbus_ok)

SpecSchedule == InitSchedule /\ [][NextSchedule]_vars

(***************************************************************************)
(* get_units, get_unit_files, get_unit_file_states.  A string is the        *)
(* sequence of its tokens: "*", the prefix, a type suffix, other text.      *)
(***************************************************************************)
\* Optional[str]
NoneStr == [isNone |-> TRUE, s |-> <<>>]

Str(s) == [isNone |-> FALSE, s |-> s]

\* re.sub(r"\*+", "*", pattern)
RECURSIVE CollapseStars(_)
CollapseStars(pattern) ==
  IF Len(pattern) < 2 THEN pattern
  ELSE IF pattern[1] = "*" /\ pattern[2] = "*" THEN CollapseStars(Tail(pattern))
  ELSE <<Head(pattern)>> \o CollapseStars(Tail(pattern))

\* sub in s
Contains(s, sub) ==
  \E i \in 1..(Len(s) - Len(sub) + 1) : SubSeq(s, i, i + Len(sub) - 1) = sub

EndsWith(s, w) == s # <<>> /\ s[Len(s)] = w

\* make_unit_match_pattern without the test for the prefix
make_unit_match_pattern_as_given(unit_type, match) ==
  LET p0 == IF match.isNone THEN <<>> ELSE match.s
      sfx == IF unit_type = "service" THEN ".service" ELSE ".timer"
      p1 == IF unit_type # "None" /\ ~EndsWith(p0, sfx) THEN Append(p0, sfx) ELSE p0
  IN  CollapseStars(Append(p1, "*"))

make_unit_match_pattern(unit_type, match) ==
  LET p0 == IF match.isNone THEN <<>> ELSE match.s
      sfx == IF unit_type = "service" THEN ".service" ELSE ".timer"
      p1 == IF unit_type # "None" /\ ~EndsWith(p0, sfx) THEN Append(p0, sfx) ELSE p0
      p2 == IF ~Contains(p1, SYSTEMD_FILE_PREFIX)
              THEN <<"*">> \o SYSTEMD_FILE_PREFIX \o <<"*">> \o p1 ELSE p1
  IN  CollapseStars(Append(p2, "*"))

\* the manager's glob match of a unit name against a pattern
RECURSIVE GlobMatch(_, _)
GlobMatch(pattern, name) ==
  IF pattern = <<>> THEN name = <<>>
  ELSE IF Head(pattern) = "*"
    THEN GlobMatch(Tail(pattern), name)
         \/ (name # <<>> /\ GlobMatch(pattern, Tail(name)))
  ELSE name # <<>> /\ Head(name) = Head(pattern)
       /\ GlobMatch(Tail(pattern), Tail(name))

\* mgr.ListUnitFilesByPatterns(states, [pattern]) and
\* mgr.ListUnitsByPatterns(states, [pattern])
ListByPatterns(m, states, pattern) ==
  {u \in m.units : /\ GlobMatch(pattern, u.name)
                    /\ (states = <<>> \/ u.state \in Range(states))}

\* states = states or []
StatesOrEmpty(states) == IF states.isNone THEN <<>> ELSE states.s

get_unit_file_states(m, unit_type, match, states) ==
  LET pattern == make_unit_match_pattern(unit_type, match)
      files == ListByPatterns(m, StatesOrEmpty(states), pattern)
  IN  [fn |-> "get_unit_file_states", args |-> <<unit_type, match, states>>,
       pattern |-> pattern, value |-> files]

get_unit_files(m, unit_type, match, states) ==
  LET file_states == get_unit_file_states(m, unit_type, match, states)
  IN  [file_states EXCEPT !.fn = "get_unit_files",
                          !.value = {[name |-> u.name] : u \in @}]

get_units(m, unit_type, match, states) ==
  LET pattern == make_unit_match_pattern(unit_type, match)
      files == ListByPatterns(m, StatesOrEmpty(states), pattern)
  IN  [fn |-> "get_units", args |-> <<unit_type, match, states>>,
       pattern |-> pattern, value |-> files]

UnitTypes == {"None", "service", "timer"}

PatternTokens == {"*", "j_b", ".service", ".timer"} \cup Range(SYSTEMD_FILE_PREFIX)

\* no substring, the empty one, and every substring of one or two tokens
Matches ==
  {NoneStr} \cup {Str(s) : s \in UNION {[1..n -> PatternTokens] : n \in 0..2}}

StateFilters == {NoneStr, Str(<<"enabled">>)}

\* the units the manager knows: this system's and others'
KnownUnits ==
  {[name |-> SYSTEMD_FILE_PREFIX \o <<"j_b", ".service">>, state |-> "enabled"],
   [name |-> SYSTEMD_FILE_PREFIX \o <<"j_b", ".timer">>, state |-> "disabled"],
   [name |-> <<"j_b", ".service">>, state |-> "enabled"],
   [name |-> <<"j_b", ".timer">>, state |-> "enabled"],
   [name |-> <<"sshd", ".service">>, state |-> "enabled"]}

InitUnits ==
  /\ spec \in {s \in ShapeSpecs : Truthy(s.start_schedule) /\ s.stop_schedule.isNone}
  /\ store = <<>>
  /\ enabled = {}
  /\ last = NoOp
  /\ mgr = [utcoffset |-> 0, units |-> KnownUnits]
  /\ ret = NoRet
  /\ db = NoRows

GetUnitFileStates(unit_type, match, states) ==
  /\ ret' = get_unit_file_states(mgr, unit_type, match, states)
  /\ UNCHANGED <<spec, store, enabled, last, mgr, db>>

GetUnitFiles(unit_type, match, states) ==
  /\ ret' = get_unit_files(mgr, unit_type, match, states)
  /\ UNCHANGED <<spec, store, enabled, last, mgr, db>>

GetUnits(unit_type, match, states) ==
  /\ ret' = get_units(mgr, unit_type, match, states)
  /\ UNCHANGED <<spec, store, enabled, last, mgr, db>>

NextUnits ==
  \E unit_type \in UnitTypes, match \in Matches, states \in StateFilters :
    \/ GetUnitFileStates(unit_type, match, states)
    \/ GetUnitFiles(unit_type, match, states)
    \/ GetUnits(unit_type, match, states)

SpecUnits == InitUnits /\ [][NextUnits]_vars

(***************************************************************************)
(* taskflows/db.py: the task_runs and task_errors tables and upsert.  A row *)
(* is a function from the table's columns to values.                       *)
(***************************************************************************)
Columns(table) ==
  IF table = "task_runs"
    THEN {"task_name", "started", "finished", "retries", "status", "return_value"}
    ELSE {"task_name", "time", "type", "message"}

\* the columns declared primary_key=True
PrimaryKey(table) ==
  IF table = "task_runs" THEN {"task_name", "started"} ELSE {"task_name", "time"}

NULL == "NULL"

\* the row insert(table).values(**values) proposes: a column left out takes
\* its default (started, time: datetime.now; retries: 0) or NULL
Proposed(table, values, now) ==
  [c \in Columns(table) |->
     IF c \in DOMAIN values THEN values[c]
     ELSE IF c \in {"started", "time"} THEN now
     ELSE IF c = "retries" THEN "0"
     ELSE NULL]

SameKey(table, r1, r2) == \A c \in PrimaryKey(table) : r1[c] = r2[c]

\* upsert as a plain insert into a table that enforces no key
upsert_insert_only(rows, table, values, now) ==
  [rows EXCEPT ![table] = @ \cup {Proposed(table, values, now)}]

\* insert ... on conflict (primary key) do update set <every column> =
\* excluded.<column>
upsert(rows, table, values, now) ==
  LET excluded == Proposed(table, values, now)
      on_conf_set == Columns(table)
      conflict == {r \in rows[table] : SameKey(table, r, excluded)}
  IN  IF conflict = {}
        THEN [rows EXCEPT ![table] = @ \cup {excluded}]
        ELSE [rows EXCEPT ![table] =
                {IF r \in conflict
                   THEN [c \in Columns(table) |->
                           IF c \in on_conf_set THEN excluded[c] ELSE r[c]]
                   ELSE r : r \in @}]

TaskNames == {"t1", "t2"}

Times == {"09:00", "10:00"}

\* what a task logger upserts when a run starts (with or without its start
\* time) and when it finishes
RunValues ==
  [task_name : TaskNames]
  \cup [task_name : TaskNames, started : Times]
  \cup [task_name : TaskNames, started : Times, finished : {"11:00"},
         retries : {"1"}, status : {"success"}, return_value : {"v"}]

\* what it upserts for an error
ErrorValues ==
  [task_name : TaskNames, type : {"Exception"}, message : {"boom"}]
  \cup [task_name : TaskNames, time : Times, type : {"Exception"},
         message : {"boom"}]

InitDB ==
  /\ spec \in {s \in ShapeSpecs : Truthy(s.start_schedule) /\ s.stop_schedule.isNone}
  /\ store = <<>>
  /\ enabled = {}
  /\ last = NoOp
  /\ mgr = NoReport
  /\ ret = NoRet
  /\ db = NoRows

Upsert(table, values, now) ==
  /\ db' = upsert(db, table, values, now)
  /\ ret' = [fn |-> "upsert", table |-> table, values |-> values,
             row |-> Proposed(table, values, now),
             conflict |-> \E r \in db[table] :
                            SameKey(table, r, Proposed(table, values, now))]
  /\ UNCHANGED <<spec, store, enabled, last, mgr>>

NextDB ==
  \E now \in Times :
    \/ \E values \in RunValues : Upsert("task_runs", values, now)
    \/ \E values \in ErrorValues : Upsert("task_errors", values, now)

SpecDB == InitDB /\ [][NextDB]_vars

(***************************************************************************)
(* Properties.                                                             *)
(***************************************************************************)
\* every artifact path the name of s can have in the store
NamePaths(s) ==
  {SystemdFilePath(s, type, b) : type \in {"service", "timer"}, b \in BOOLEAN}

Indices(tr, evs) == {i \in DOMAIN tr : tr[i].ev \in evs}

Calls(tr, evs) == SelectSeq(tr, LAMBDA e : e.ev \in evs)

\* no call failed whose failure the handlers are not said to tolerate
NoFatalFault(tr) ==
  \A i \in Indices(tr, {"DisableUnitFiles", "Reload", "EnableUnitFiles"}) : tr[i].ok

PersistentlyEnabled(paths) == {Enabled(basename(p), FALSE) : p \in paths}

\* C1: from a store with no artifact of the name, create() of a spec with a
\* start schedule and no stop schedule completes and leaves exactly the timer
\* and the service artifact, both enabled persistently; the remove() that
\* follows leaves no artifact and no enabled entry of the name.
C1_CreateStep ==
  (/\ last'.op = "create" /\ spec' = spec
   /\ Truthy(spec.start_schedule) /\ spec.stop_schedule.isNone
   /\ DOMAIN store \cap NamePaths(spec) = {}
   /\ NoFatalFault(last'.trace))
  => /\ last'.err = "none"
     /\ DOMAIN store' = Range(unit_files(spec))
     /\ Len(timer_files(spec)) = 1 /\ Len(service_files(spec)) = 1
     /\ enabled' = PersistentlyEnabled(Range(unit_files(spec)))

C1_RemoveStep ==
  (/\ last.op = "create" /\ last.err = "none"
   /\ last'.op = "remove" /\ spec' = spec
   /\ Truthy(spec.start_schedule) /\ spec.stop_schedule.isNone
   /\ DOMAIN store = Range(unit_files(spec))
   /\ NoFatalFault(last'.trace))
  => /\ DOMAIN store' \cap NamePaths(spec) = {}
     /\ enabled' \cap PersistentlyEnabled(NamePaths(spec)) = {}

C1_CreateThenRemove == [][C1_CreateStep /\ C1_RemoveStep]_vars

\* the step of create() an effect belongs to
Phase(e) ==
  CASE e.ev = "write_text" -> 2
    [] e.ev = "Reload" -> 3
    [] e.ev = "EnableUnitFiles" -> 4
    [] OTHER -> 1

\* C2: create(spec, deferReload) removes the prior artifacts, then writes
\* every timer and service artifact, then reloads the manager, then issues one
\* enable call over unit_files with the persistent flag; with deferReload no
\* reload is issued and the enable call still follows the writes; no artifact
\* is enabled before it is written.
C2_CreateOrder ==
  last.op = "create" =>
    LET tr == last.trace
        en == Indices(tr, {"EnableUnitFiles"})
        rl == Indices(tr, {"Reload"})
        wr == Indices(tr, {"write_text"})
    IN  /\ \A i, j \in DOMAIN tr : i < j => Phase(tr[i]) <= Phase(tr[j])
        /\ Cardinality(en) <= 1 /\ Cardinality(rl) <= 1
        /\ last.defer => rl = {}
        /\ ~last.defer /\ en # {} => rl # {}
        /\ wr # {} => Range(unit_files(spec)) \subseteq {tr[j].arg[1] : j \in wr}
        /\ wr # {} /\ (last.defer \/ \E i \in rl : tr[i].ok) => en # {}
        /\ \A i \in en :
             /\ tr[i].arg = unit_files(spec)
             /\ tr[i].mode = "persistent"
             /\ \A k \in DOMAIN tr[i].arg :
                  \E j \in wr : j < i /\ tr[j].arg = <<tr[i].arg[k]>>
        /\ last.err = "none" => \E i \in en : tr[i].ok /\ i = Len(tr)

C2_Witness ==
  /\ last.op = "create" /\ last.defer /\ last.err = "none"
  /\ Len(unit_files(spec)) = 4

\* the step of remove() an effect belongs to
RemoveRank(e) ==
  CASE e.ev = "StopUnit" -> 1
    [] e.ev = "DisableUnitFiles" -> 2
    [] e.ev \in {"CleanUnit", "read_text"} -> 3
    [] e.ev = "delete_docker_container" -> 4
    [] e.ev = "unlink" -> 5
    [] OTHER -> 6

Targets(tr, evs) == LET c == Calls(tr, evs) IN [i \in DOMAIN c |-> c[i].arg[1]]

Basenames(files) == [i \in DOMAIN files |-> files[i].base]

\* C3: in remove() every stop call precedes the disable call, the disable
\* call precedes every clean call, every clean call precedes every container
\* delete, and every container delete precedes the deletion of any file; a
\* remove() that completes has made all of these calls.
C3_RemoveOrder ==
  last.op \in {"remove", "create"} =>
    LET tr == last.trace
    IN  /\ \A i, j \in DOMAIN tr : i < j => RemoveRank(tr[i]) <= RemoveRank(tr[j])
        /\ Cardinality(Indices(tr, {"DisableUnitFiles"})) <= 1
        /\ last.op = "remove" /\ last.err = "none" =>
             /\ Targets(tr, {"StopUnit"}) = Basenames(unit_files(spec))
             /\ Cardinality(Indices(tr, {"DisableUnitFiles"})) = 1
             /\ Targets(tr, {"CleanUnit"}) = Basenames(service_files(spec))
             /\ Targets(tr, {"unlink"}) = unit_files(spec)

C3_Witness ==
  /\ last.op = "remove" /\ last.err = "none"
  /\ Cardinality(Indices(last.trace, {"CleanUnit"})) = 2
  /\ Indices(last.trace, {"delete_docker_container"}) # {}

\* C4: a failing stop, disable or clean call during remove() or disable() is
\* not propagated to the caller, and remove() goes on to delete every
\* artifact file of the spec.
C4_FaultsNotPropagated ==
  last.op \in {"remove", "disable"} =>
    /\ last.err # "DBusException"
    /\ last.op = "remove" /\ last.err = "none" =>
         Range(unit_files(spec)) \cap DOMAIN store = {}

\* C5: whatever the store held, create() followed by create() on the
\* unchanged spec succeeds and leaves the spec's unit files written and
\* enabled, as one successful create() does.
C5_CreateTwice ==
  [][(/\ last.op = "create" /\ last'.op = "create" /\ spec' = spec
      /\ NoFatalFault(last'.trace))
     => /\ last'.err = "none"
        /\ Range(unit_files(spec)) \subseteq DOMAIN store'
        /\ PersistentlyEnabled(Range(unit_files(spec))) \subseteq enabled']_vars

\* C6: after a create() that completes, the store holds and the manager has
\* enabled no artifact of the name other than the unit files of the spec.
C6_NoStaleArtifacts ==
  last.op = "create" /\ last.err = "none" =>
    /\ DOMAIN store \cap NamePaths(spec) \subseteq Range(unit_files(spec))
    /\ enabled \cap PersistentlyEnabled(NamePaths(spec))
         \subseteq PersistentlyEnabled(Range(unit_files(spec)))

\* the lines of a text that name a container after docker start or stop
DockerLines(text) ==
  {i \in DOMAIN text : text[i].val.prog \in {"docker start", "docker stop"}}

AllDockerRefs(text) == {text[i].val.arg : i \in DockerLines(text)}

FirstDockerRef(text) ==
  {text[i].val.arg : i \in {k \in DockerLines(text) :
                              \A j \in DockerLines(text) : k <= j}}

DeletedContainers(tr) == Targets(tr, {"delete_docker_container"})

\* the run got past the scan of the service files, to the container deletes
ReachedDelete(l) == l.err = "none" \/ Indices(l.trace, {"unlink"}) # {}

\* C7 as stated: remove() deletes, once each, every container that the text
\* of a scanned service artifact names anywhere, and no other
C7_DeletesEveryRef ==
  [][(last'.op = "remove" /\ ReachedDelete(last') /\ spec' = spec) =>
       LET dels == DeletedContainers(last'.trace)
           refs == UNION {AllDockerRefs(store[f]) : f \in Range(service_files(spec))}
       IN  Range(dels) = refs /\ Len(dels) = Cardinality(refs)]_vars

\* C7: a remove() that gets as far as the container deletes calls the
\* delete, once each, for every container that is the first docker start/stop
\* reference in the text of a scanned service artifact, and for no other: a
\* name referenced twice gets one call, and of two names in one artifact only
\* the one that comes first in the text is deleted.
C7_DeletesFirstRefs ==
  [][(last'.op = "remove" /\ ReachedDelete(last') /\ spec' = spec) =>
       LET dels == DeletedContainers(last'.trace)
           refs == UNION {FirstDockerRef(store[f]) : f \in Range(service_files(spec))}
       IN  Range(dels) = refs /\ Len(dels) = Cardinality(refs)]_vars

\* the artifact named c1 and c2, ExecStop first: c2 alone was deleted
C7_Witness ==
  /\ last.op = "remove" /\ last.err = "none"
  /\ Len(service_files(spec)) = 2
  /\ DeletedContainers(last.trace) = <<Container(<<"c2">>)>>

\* the basenames of unit_files that are not stop-<stem>.service
StartTargets(s) ==
  SelectSeq(Basenames(unit_files(s)), LAMBDA u : ~(u.stop /\ u.type = "service"))

\* C8 as stated: start() issues one start call, in list order, for every
\* file that is not a stop service
C8_OneCallPerFile ==
  last.op = "start" => Targets(last.trace, {"StartUnit"}) = StartTargets(spec)

\* C8: start() issues its start calls in list order, by basename, skipping
\* the stop service, up to and including the first call that fails; that
\* failure is raised; with no failure every file that is not a stop service
\* gets exactly one call.
C8_StartCalls ==
  last.op = "start" =>
    LET tr == last.trace
        expected == StartTargets(spec)
    IN  /\ Len(tr) <= Len(expected)
        /\ \A i \in DOMAIN tr :
             /\ tr[i].ev = "StartUnit" /\ tr[i].mode = "replace"
             /\ tr[i].arg = <<expected[i]>>
             /\ i < Len(tr) => tr[i].ok
        /\ last.err = "none" => Len(tr) = Len(expected) /\ \A i \in DOMAIN tr : tr[i].ok
        /\ last.err # "none" =>
             last.err = "DBusException" /\ tr # <<>> /\ ~tr[Len(tr)].ok

C8_Witness ==
  /\ last.op = "start" /\ last.err = "none"
  /\ Truthy(spec.stop_schedule) /\ Truthy(spec.start_schedule)
  /\ Len(last.trace) = 3

\* C9: stop() issues one stop call for the basename of every file, in order,
\* whatever the outcome of the calls before, and raises nothing.
C9_StopCalls ==
  last.op = "stop" =>
    /\ last.err = "none"
    /\ \A i \in DOMAIN last.trace : last.trace[i].ev = "StopUnit"
    /\ Targets(last.trace, {"StopUnit"}) = Basenames(unit_files(spec))

C9_Witness ==
  /\ last.op = "stop"
  /\ Len(last.trace) >= 2
  /\ ~last.trace[1].ok

StopServicePath(s) == SystemdFilePath(s, "service", TRUE)

StopTimerPath(s) == SystemdFilePath(s, "timer", TRUE)

\* the text of a stop service: no [Unit] section, one ExecStart that stops
\* the primary service by its basename
StopServiceText(s) ==
  <<Header("[Service]"),
    Line("ExecStart",
         Cmd("systemctl --user stop", UnitName(FALSE, base_file_stem(s), "service"))),
    Header("[Install]"),
    Line("WantedBy", Txt("default.target"))>>

\* C10 as stated: with a stop_schedule, service_files and timer_files have
\* two entries each, whether or not a start_schedule is set
C10_TwoAndTwo ==
  Truthy(spec.stop_schedule) =>
    /\ Len(service_files(spec)) = 2
    /\ Len(timer_files(spec)) = 2
    /\ last.op = "synthesize" => store[StopServicePath(spec)] = StopServiceText(spec)

\* C10: with a (non-empty) stop_schedule, service_files has two entries, the
\* primary and the stop service; timer_files has two entries when a
\* (non-empty) start_schedule is set and the stop timer alone otherwise; the
\* stop service artifact has no [Unit] section and a single ExecStart that
\* stops the primary service by its basename.
C10_StopScheduleFiles ==
  Truthy(spec.stop_schedule) =>
    /\ service_files(spec) =
         <<SystemdFilePath(spec, "service", FALSE), StopServicePath(spec)>>
    /\ timer_files(spec) =
         IF Truthy(spec.start_schedule)
           THEN <<SystemdFilePath(spec, "timer", FALSE), StopTimerPath(spec)>>
           ELSE <<StopTimerPath(spec)>>
    /\ last.op = "synthesize" =>
         /\ store[StopServicePath(spec)] = StopServiceText(spec)
         /\ \A i \in DOMAIN store[StopServicePath(spec)] :
              store[StopServicePath(spec)][i].key # "[Unit]"

C10_Witness ==
  /\ last.op = "synthesize"
  /\ Truthy(spec.stop_schedule) /\ spec.start_schedule.isNone
  /\ CmdSet(spec.description)
  /\ Len(timer_files(spec)) = 1

\* the files an operation wrote, in order
Written(tr) == Targets(tr, {"write_text"})

\* C11: for a spec whose start_schedule and stop_schedule are both None,
\* timer_files is empty, service_files is the primary <stem>.service alone,
\* and create() writes no timer and no stop service artifact: all it writes
\* is the primary service file.
C11_NoSchedules ==
  spec.start_schedule.isNone /\ spec.stop_schedule.isNone =>
    /\ timer_files(spec) = <<>>
    /\ service_files(spec) = <<SystemdFilePath(spec, "service", FALSE)>>
    /\ last.op = "create" =>
         \A i \in DOMAIN Written(last.trace) :
           Written(last.trace)[i] = SystemdFilePath(spec, "service", FALSE)

C11_Witness ==
  /\ last.op = "create" /\ last.err = "none"
  /\ spec.start_schedule.isNone /\ spec.stop_schedule.isNone
  /\ Written(last.trace) = <<SystemdFilePath(spec, "service", FALSE)>>

\* C12: synthesizing the unchanged spec again leaves every artifact with the
\* content the synthesis before gave it: the directive lines of a section
\* come out in one order that the spec's field values determine.
C12_Deterministic ==
  [][(last.op \in {"synthesize", "resynthesize"} /\ last'.op = "resynthesize")
       => store' = store]_vars

\* C13: create() of a spec whose name is empty raises an error before any
\* effect: no file is written, read or deleted and no call goes to the
\* manager.
C13_EmptyNameFailsFast ==
  last.op = "create" /\ spec.name = <<>> =>
    last.err # "none" /\ last.trace = <<>>

\* the sentinel epoch value, or outside the range datetime can hold
Unknown(timestamp) == timestamp = Epoch \/ timestamp.day > MaxDay

Decoded(timestamp, v) ==
  IF Unknown(timestamp) THEN v = None ELSE v.kind = "datetime"

\* C14: get_schedule_info raises nothing over a timestamp value, and returns
\* every timestamp the manager reports (last start, last finish, next start,
\* each timer entry's next elapse) as unknown when it is the sentinel epoch
\* or beyond the calendar range, and as a date otherwise; an
\* ActiveExitTimestamp equal to the sentinel gives an unknown Last Finish.
C14_TimestampsDecoded ==
  ret.fn = "get_schedule_info" /\ ret.err # "DBusException" =>
    /\ ret.err = "none"
    /\ Decoded(mgr.ActiveEnterTimestamp, ret.schedule["Last Start"])
    /\ Decoded(mgr.ActiveExitTimestamp, ret.schedule["Last Finish"])
    /\ ~Unknown(mgr.NextElapseUSecRealtime) =>
         ret.schedule["Next Start"].kind = "datetime"
    /\ \A i \in DOMAIN ret.timers_cal :
         Decoded(mgr.TimersCalendar[i].next_start, ret.timers_cal[i].next_start)
    /\ \A i \in DOMAIN ret.timers_mono :
         Decoded(mgr.TimersMonotonic[i].next_start, ret.timers_mono[i].next_start)

\* unit names of up to three tokens, none of them the prefix
NamesWithoutPrefix ==
  UNION {[1..n -> {"j_b", "stop-", ".service", ".timer"}] : n \in 0..3}

KeysOf(table, rows) == {[c \in PrimaryKey(table) |-> r[c]] : r \in rows}

\* C16: a table holds one record per key: an upsert whose key is new adds
\* one record, an upsert whose key exists overwrites the fields of that
\* record and adds none, and no other record changes; so no two records of a
\* table ever share a key.
C16_OneRecordPerKey ==
  [][ret'.fn = "upsert" =>
       LET table == ret'.table
           row == ret'.row
           old == {r \in db[table] : SameKey(table, r, row)}
       IN  /\ old = {} => Cardinality(db'[table]) = Cardinality(db[table]) + 1
           /\ old # {} => Cardinality(db'[table]) = Cardinality(db[table])
           /\ {r \in db'[table] : SameKey(table, r, row)} = {row}
           /\ db'[table] \ {row} = db[table] \ old
           /\ \A other \in DOMAIN db \ {table} : db'[other] = db[other]
           /\ \A tb \in DOMAIN db :
                Cardinality(KeysOf(tb, db'[tb])) = Cardinality(db'[tb])]_vars

\* a run was started, then finished: one record, the finished one; and one
\* error reported: one record
C16_Witness ==
  /\ ret.fn = "upsert" /\ ret.table = "task_runs"
  /\ "finished" \in DOMAIN ret.values /\ ret.conflict
  /\ db["task_runs"] = {ret.row}
  /\ Cardinality(db["task_errors"]) = 1

\* C17: for every value of the two schedule slots, an empty list included,
\* the set of artifact files that the synthesis of create() writes is the set
\* that unit_files lists, the one create() enables and remove() stops,
\* disables and deletes.
C17_WrittenIsListed ==
  last.op \in {"synthesize", "resynthesize"} =>
    /\ Range(Written(last.trace)) = Range(unit_files(spec))
    /\ DOMAIN store = Range(unit_files(spec))

\* C18: neither start() nor restart() issues a StartUnit or RestartUnit call
\* whose target is the stop service stop-<stem>.service.
C18_StopServiceNotActivated ==
  last.op \in {"start", "restart"} =>
    \A i \in Indices(last.trace, {"StartUnit", "RestartUnit"}) :
      ~(last.trace[i].arg[1].stop /\ last.trace[i].arg[1].type = "service")

\* C19: when remove() deletes an artifact file, the stop and the disable of
\* its unit have taken effect in the manager: a StopUnit call for the unit
\* and the DisableUnitFiles call naming it have succeeded before.
C19_DeletedUnitsAreDown ==
  last.op = "remove" =>
    LET tr == last.trace
    IN  \A i \in Indices(tr, {"unlink"}) :
          tr[i].ok =>
            /\ \E j \in Indices(tr, {"StopUnit"}) :
                 j < i /\ tr[j].ok /\ tr[j].arg = <<basename(tr[i].arg[1])>>
            /\ \E j \in Indices(tr, {"DisableUnitFiles"}) :
                 j < i /\ tr[j].ok /\ basename(tr[i].arg[1]) \in Range(tr[j].arg)

====
